---- MODULE Spec2Model ----
(***************************************************************************)
(* Credential resolution of the Viridem n8n nodes: the process-wide token  *)
(* cache (TokenCacheManager), the resolver built on it (ViridemOAuth2API)  *)
(* and the self-contained resolver with its own module-level cache         *)
(* (ViridemOauth2).  Times are epoch milliseconds, strings are strings.    *)
(***************************************************************************)
EXTENDS Integers, Sequences, FiniteSets, Bags, TLC

VARIABLES
    now,            \* the reading of Date.now()
    resolver,       \* the credential class the process resolves with
    instance,       \* TokenCacheManager.instance is set
    cache,          \* TokenCacheManager.cache: key -> TokenCacheEntry
    keyGenerators,  \* credential types with a registered key generator
    cacheConfigs,   \* credential type -> CacheConfig
    cleanupInterval,\* the live instance holds an interval timer
    timers,         \* the interval timers active in the process
    tokenCache,     \* the module-level tokenCache of ViridemOauth2
    calls,          \* resolution calls suspended at a network await
    ret             \* what the step just taken returned to its caller

vars == <<now, resolver, instance, cache, keyGenerators, cacheConfigs,
          cleanupInterval, timers, tokenCache, calls, ret>>

----------------------------------------------------------------------------
(* Bounds of the model. *)

\* number of clock readings after the first one
MaxTick == 1
\* resolution calls that may be suspended at the same time
MaxInFlight == 1

\* The clock readings of the model: the instants at which an entry written
\* at an earlier reading expires (240000, 3540000 and 3600000 after it).
TimeLine == <<0, 240000, 3540000, 3600000, 3840000, 7140000, 7200000>>

Min(a, b) == IF a <= b THEN a ELSE b
Max(a, b) == IF a >= b THEN a ELSE b

Instants == {TimeLine[i] : i \in 1..Min(MaxTick + 1, Len(TimeLine))}

----------------------------------------------------------------------------
(* Strings. *)

StartsWith(s, p) == Len(s) >= Len(p) /\ SubSeq(s, 1, Len(p)) = p

Contains(s, sub) ==
    \E i \in 1..(Len(s) - Len(sub) + 1) : SubSeq(s, i, i + Len(sub) - 1) = sub

RECURSIVE Join(_, _)
Join(parts, sep) ==
    IF Len(parts) = 0 THEN ""
    ELSE IF Len(parts) = 1 THEN parts[1]
    ELSE parts[1] \o sep \o Join(Tail(parts), sep)

\* the filter of an array by a predicate given as the set of kept elements
RECURSIVE Filter(_, _)
Filter(seq, keep) ==
    IF Len(seq) = 0 THEN <<>>
    ELSE (IF seq[1] \in keep THEN <<seq[1]>> ELSE <<>>) \o Filter(Tail(seq), keep)

\* Character codes of the characters credentials are made of here.
CharCode(c) ==
    CASE c = ":" -> 58  [] c = "1" -> 49  [] c = "2" -> 50
      [] c = "c" -> 99  [] c = "h" -> 104 [] c = "p" -> 112
      [] c = "s" -> 115 [] c = "u" -> 117 [] c = "a" -> 97
      [] c = "n" -> 110 [] c = "o" -> 111 [] c = "y" -> 121
      [] c = "m" -> 109 [] c = "d" -> 100 [] c = "e" -> 101
      [] c = "f" -> 102 [] c = "i" -> 105

Base64Alphabet ==
    "ABCDEFGHIJKLMNOPQRSTUVWXYZabcdefghijklmnopqrstuvwxyz0123456789+/"

B64Char(n) == SubSeq(Base64Alphabet, n + 1, n + 1)

\* Buffer.from(s).toString('base64'): three bytes to four characters, '='
\* padding on the last group.
RECURSIVE Base64(_)
Base64(s) ==
    IF Len(s) = 0 THEN ""
    ELSE
      LET b1 == CharCode(SubSeq(s, 1, 1))
          b2 == IF Len(s) >= 2 THEN CharCode(SubSeq(s, 2, 2)) ELSE 0
          b3 == IF Len(s) >= 3 THEN CharCode(SubSeq(s, 3, 3)) ELSE 0
          n  == b1 * 65536 + b2 * 256 + b3
          c1 == B64Char(n \div 262144)
          c2 == B64Char((n \div 4096) % 64)
          c3 == IF Len(s) >= 2 THEN B64Char((n \div 64) % 64) ELSE "="
          c4 == IF Len(s) >= 3 THEN B64Char(n % 64) ELSE "="
      IN  c1 \o c2 \o c3 \o c4
             \o (IF Len(s) > 3 THEN Base64(SubSeq(s, 4, Len(s))) ELSE "")

----------------------------------------------------------------------------
(* Credential records: a record is a JavaScript object, a function from the *)
(* fields it has to their string values.                                    *)

Absent == <<>>

\* !credentials[field] is false
Truthy(credentials, field) ==
    field \in DOMAIN credentials /\ credentials[field] # ""

\* `${credentials[field]}`
Render(credentials, field) ==
    IF field \in DOMAIN credentials THEN credentials[field] ELSE "undefined"

\* credentials[field] || fallback
OrElse(credentials, field, fallback) ==
    IF Truthy(credentials, field) THEN credentials[field] ELSE fallback

\* a record with every field the resolvers ask for
Complete(username) ==
    ("baseUrl" :> "h") @@ ("username" :> username) @@ ("password" :> "p1")
        @@ ("client_id" :> "c") @@ ("client_secret" :> "s")

Without(credentials, field) ==
    [f \in DOMAIN credentials \ {field} |-> credentials[f]]

\* The records resolved here: two complete ones that differ in the user, some
\* that lack a single field, one with an empty field, and some that lack or
\* leave empty several.
Records ==
    {Complete("u1"), Complete("u2")}
        \cup {Without(Complete("u1"), f) : f \in {"baseUrl", "password", "client_id"}}
        \cup {[Complete("u1") EXCEPT !.client_secret = ""],
              [Without(Complete("u2"), "client_id") EXCEPT !.username = ""],
              Absent}

----------------------------------------------------------------------------
(* TokenCacheManager. *)

DEFAULT_CACHE_CONFIG ==
    [bufferTime |-> 60000, defaultTokenExpiry |-> 3600000,
     minCacheDuration |-> 300000, cleanupInterval |-> 300000]

CredentialType == "ViridemOAuth2API"

\* this.cacheConfigs.get(credentialType) || DEFAULT_CACHE_CONFIG
getCacheConfig(credentialType) ==
    IF credentialType \in DOMAIN cacheConfigs
    THEN cacheConfigs[credentialType] ELSE DEFAULT_CACHE_CONFIG

\* registerCacheConfig that merges over what the type has, not over the default
registerCacheConfig_Keep(credentialType, config) ==
    (credentialType :> (config @@ getCacheConfig(credentialType))) @@ cacheConfigs

\* { ...DEFAULT_CACHE_CONFIG, ...config } stored under the type
registerCacheConfig(credentialType, config) ==
    (credentialType :> (config @@ DEFAULT_CACHE_CONFIG)) @@ cacheConfigs

defaultKeyGenerator(credentials) ==
    LET baseUrl  == OrElse(credentials, "baseUrl", "unknown")
        username == IF Truthy(credentials, "username") THEN credentials.username
                    ELSE OrElse(credentials, "user", "anonymous")
    IN  baseUrl \o "-" \o username

\* a registered generator that tells the records of one user apart by
\* their password
ViridemKeyGenerator_Secret(credentials) ==
    "viridem_" \o OrElse(credentials, "username", "unknown")
               \o "_" \o OrElse(credentials, "baseUrl", "default")
               \o "_" \o OrElse(credentials, "password", "")

\* the generator registered for 'ViridemOAuth2API' when the module loads
ViridemKeyGenerator(credentials) ==
    IF Truthy(credentials, "clientId") /\ Truthy(credentials, "baseUrl")
    THEN "viridem_" \o credentials.clientId \o "_" \o credentials.baseUrl
    ELSE "viridem_" \o OrElse(credentials, "username", "unknown")
                    \o "_" \o OrElse(credentials, "baseUrl", "default")

\* a key derivation that leaves the user out
generateKey_ByHost(credentialType, credentials) ==
    "viridem_" \o OrElse(credentials, "baseUrl", "default")

generateKey(credentialType, credentials) ==
    IF credentialType \in keyGenerators
    THEN ViridemKeyGenerator(credentials)
    ELSE defaultKeyGenerator(credentials)

\* createOAuthEntry without the floor of minCacheDuration
createOAuthEntry_NoFloor(credentialType, token, expiresInSeconds) ==
    LET config == getCacheConfig(credentialType)
    IN  [token |-> token,
         expires |-> now + expiresInSeconds * 1000 - config.bufferTime,
         type |-> "oauth"]

createOAuthEntry(credentialType, token, expiresInSeconds) ==
    LET config     == getCacheConfig(credentialType)
        expiresIn  == Max(expiresInSeconds * 1000, config.minCacheDuration)
        expiryTime == now + expiresIn - config.bufferTime
    IN  [token |-> token, expires |-> expiryTime, type |-> "oauth"]

\* createBasicAuthEntry that takes the buffer off, as createOAuthEntry does
createBasicAuthEntry_Buffered(credentialType, token) ==
    LET config == getCacheConfig(credentialType)
    IN  [token |-> token,
         expires |-> now + config.defaultTokenExpiry - config.bufferTime,
         type |-> "basic"]

createBasicAuthEntry(credentialType, token) ==
    LET config == getCacheConfig(credentialType)
    IN  [token |-> token, expires |-> now + config.defaultTokenExpiry,
         type |-> "basic"]

Remove(store, key) == [k \in DOMAIN store \ {key} |-> store[k]]

\* get that finds nothing: every lookup is a miss
get_Miss(key) == [ret |-> Absent, cache |-> cache]

\* get that removes whatever it looks up, expired or not
get_Evict(key) ==
    IF key \in DOMAIN cache
    THEN [ret |-> Absent, cache |-> Remove(cache, key)]
    ELSE [ret |-> Absent, cache |-> cache]

\* get with the expiry test off by one: an entry is served at its expiry instant
get_Stale(key) ==
    IF key \in DOMAIN cache /\ cache[key].expires < now
    THEN [ret |-> Absent, cache |-> Remove(cache, key)]
    ELSE [ret |-> IF key \in DOMAIN cache THEN cache[key] ELSE Absent,
          cache |-> cache]

\* get(key): the value returned and the store it leaves
get(key) ==
    IF key \in DOMAIN cache /\ cache[key].expires <= now
    THEN [ret |-> Absent, cache |-> Remove(cache, key)]
    ELSE [ret |-> IF key \in DOMAIN cache THEN cache[key] ELSE Absent,
          cache |-> cache]

\* set that updates an entry in place and keeps the expiry it finds
set_Merge(key, entry) ==
    IF key \in DOMAIN cache
    THEN (key :> [entry EXCEPT !.expires = cache[key].expires]) @@ cache
    ELSE (key :> entry) @@ cache

\* set(key, entry): the store it leaves
set(key, entry) == (key :> entry) @@ cache

\* delete(key)
delete(key) == [ret |-> key \in DOMAIN cache, cache |-> Remove(cache, key)]

\* has(key)
has(key) ==
    IF key \notin DOMAIN cache THEN [ret |-> FALSE, cache |-> cache]
    ELSE IF cache[key].expires <= now
         THEN [ret |-> FALSE, cache |-> Remove(cache, key)]
         ELSE [ret |-> TRUE, cache |-> cache]

getByCredentials(credentialType, credentials) ==
    get(generateKey(credentialType, credentials))

setByCredentials(credentialType, credentials, entry) ==
    set(generateKey(credentialType, credentials), entry)

\* a sweep that keeps the entries expiring at this very instant
cleanupExpiredTokens_Strict ==
    [k \in {x \in DOMAIN cache : ~(cache[x].expires < now)} |-> cache[k]]

\* a sweep that also removes the entries about to expire
cleanupExpiredTokens_Early ==
    [k \in {x \in DOMAIN cache : ~(cache[x].expires <= now + 1)} |-> cache[k]]

\* cleanupExpiredTokens(): the store it leaves
cleanupExpiredTokens ==
    [k \in {x \in DOMAIN cache : ~(cache[x].expires <= now)} |-> cache[k]]

\* keys(): the keys stored, expired or not
keys == DOMAIN cache

\* getStats that counts an entry expiring at this very instant as active
getStats_Late ==
    [total   |-> Cardinality(DOMAIN cache),
     expired |-> Cardinality({k \in DOMAIN cache : cache[k].expires < now}),
     active  |-> Cardinality({k \in DOMAIN cache : ~(cache[k].expires < now)}),
     types   |-> [t \in {cache[k].type : k \in DOMAIN cache} |->
                     Cardinality({k \in DOMAIN cache : cache[k].type = t})]]

\* getStats(): the counts it returns
getStats ==
    [total   |-> Cardinality(DOMAIN cache),
     expired |-> Cardinality({k \in DOMAIN cache : cache[k].expires <= now}),
     active  |-> Cardinality({k \in DOMAIN cache : ~(cache[k].expires <= now)}),
     types   |-> [t \in {cache[k].type : k \in DOMAIN cache} |->
                     Cardinality({k \in DOMAIN cache : cache[k].type = t})]]

\* startCleanupInterval(): the timers active in the process once the instance
\* has cleared the timer it held, if any, and set a new one
startCleanupInterval(held, active) == (IF held THEN active - 1 ELSE active) + 1

\* stopCleanupInterval(): the timers active once the instance has cleared the
\* timer it held, if any
stopCleanupInterval(held, active) == IF held THEN active - 1 ELSE active

\* reset that drops the instance and forgets to stop its timer
reset_TimerLeft ==
    [instance |-> FALSE, cleanupInterval |-> cleanupInterval,
     timers |-> timers, cache |-> Absent,
     keyGenerators |-> {}, cacheConfigs |-> Absent]

\* TokenCacheManager.reset(): the fields it leaves. The timer of the live
\* instance is stopped, its store cleared and the instance dropped; the next
\* getInstance() makes an instance whose maps are empty, the registrations
\* of the module load included.
reset ==
    IF instance
    THEN [instance |-> FALSE, cleanupInterval |-> FALSE,
          timers |-> stopCleanupInterval(cleanupInterval, timers),
          cache |-> Absent,
          keyGenerators |-> {}, cacheConfigs |-> Absent]
    ELSE [instance |-> instance, cleanupInterval |-> cleanupInterval,
          timers |-> timers,
          cache |-> cache, keyGenerators |-> keyGenerators,
          cacheConfigs |-> cacheConfigs]

----------------------------------------------------------------------------
(* The network: what a fetch can come back with. *)

\* fetch() rejected: no response at all
Rejected(message) ==
    [kind |-> "reject", ok |-> FALSE, status |-> 0, statusText |-> message,
     text |-> "", data |-> Absent]

\* a response whose body is read as text
Http(status, statusText, text) ==
    [kind |-> "http", ok |-> status >= 200 /\ status <= 299, status |-> status,
     statusText |-> statusText, text |-> text, data |-> Absent]

\* a 200 response whose body is the JSON object data
Json(data) ==
    [kind |-> "json", ok |-> TRUE, status |-> 200, statusText |-> "OK",
     text |-> "", data |-> data]

\* a 200 response whose body is not JSON
NotJson ==
    [kind |-> "text", ok |-> TRUE, status |-> 200, statusText |-> "OK",
     text |-> "<html>", data |-> Absent]

Failures ==
    {Rejected("fetch failed"),
     Http(401, "Unauthorized", "denied"),
     Http(500, "Internal Server Error", "oops")}

TokenResponses ==
    Failures \cup
    {NotJson,
     Json("error" :> "invalid_grant"),
     Json(("error" :> "invalid_grant") @@ ("access_token" :> "tokA")),
     Json(Absent),
     Json("access_token" :> ""),
     Json("access_token" :> "tokA"),
     Json(("access_token" :> "tokB") @@ ("expires_in" :> 1)),
     Json(("access_token" :> "Basic tokC") @@ ("expires_in" :> 3600))}

ProbeResponses ==
    {Rejected("fetch failed"), Http(403, "Forbidden", "no"), Http(200, "OK", "[]")}

\* what the fetch of a call can come back with: a URL without a base does
\* not parse, and fetch rejects before anything is sent
Reachable(credentials, responses) ==
    IF Truthy(credentials, "baseUrl") THEN responses
    ELSE {Rejected("Failed to parse URL")}

----------------------------------------------------------------------------
(* ViridemOAuth2API, the resolver on TokenCacheManager. *)

OAuth2API == "ViridemOAuth2API"
Oauth2 == "ViridemOauth2"

Thrown(message) == [ok |-> FALSE, message |-> message]

\* formatAuthHeader that puts the Bearer scheme before whatever it is given
formatAuthHeader_Always(token) == "Bearer " \o token

formatAuthHeader(token) ==
    IF StartsWith(token, "Basic ") \/ StartsWith(token, "Bearer ")
    THEN token
    ELSE "Bearer " \o token

requiredFields == <<"client_id", "client_secret", "username", "password", "baseUrl">>

missingFields(credentials) ==
    Filter(requiredFields,
           {f \in {requiredFields[i] : i \in DOMAIN requiredFields} :
               ~Truthy(credentials, f)})

\* tryOAuth2Authentication that rejects a body only when it has an error
\* and no access_token
tryOAuth2Authentication_Both(response) ==
    IF response.kind = "reject" THEN Thrown(response.statusText)
    ELSE IF ~response.ok
    THEN Thrown("HTTP " \o ToString(response.status) \o ": "
                    \o response.statusText \o ". " \o response.text)
    ELSE IF response.kind # "json" THEN Thrown("Unexpected token < in JSON")
    ELSE IF Truthy(response.data, "error") /\ ~Truthy(response.data, "access_token")
    THEN Thrown("OAuth2 Error: "
                    \o OrElse(response.data, "error", "No access token received"))
    ELSE [ok |-> TRUE, access_token |-> OrElse(response.data, "access_token", ""),
          expires_in |-> IF "expires_in" \in DOMAIN response.data
                            /\ response.data.expires_in # 0
                         THEN response.data.expires_in ELSE 3600]

\* tryOAuth2Authentication from the response on, up to the cache write:
\* the token and lifetime to cache, or the error thrown
tryOAuth2Authentication(response) ==
    IF response.kind = "reject" THEN Thrown(response.statusText)
    ELSE IF ~response.ok
    THEN Thrown("HTTP " \o ToString(response.status) \o ": "
                    \o response.statusText \o ". " \o response.text)
    ELSE IF response.kind # "json" THEN Thrown("Unexpected token < in JSON")
    ELSE IF Truthy(response.data, "error") \/ ~Truthy(response.data, "access_token")
    THEN Thrown("OAuth2 Error: "
                    \o OrElse(response.data, "error", "No access token received"))
    ELSE [ok |-> TRUE, access_token |-> response.data.access_token,
          expires_in |-> IF "expires_in" \in DOMAIN response.data
                            /\ response.data.expires_in # 0
                         THEN response.data.expires_in ELSE 3600]

basicAuthHeader(credentials) ==
    "Basic " \o Base64(Render(credentials, "username") \o ":"
                          \o Render(credentials, "password"))

\* tryBasicAuthentication from the response on, up to the cache write
tryBasicAuthentication(response) ==
    IF response.kind = "reject" THEN Thrown(response.statusText)
    ELSE IF ~response.ok
    THEN Thrown("HTTP " \o ToString(response.status) \o ": "
                    \o response.statusText \o ". " \o response.text)
    ELSE [ok |-> TRUE]

\* a call suspended at a fetch: pc is "oauth" (the token request) or "basic"
\* (the probe); now is the reading taken when the call began; oauthError is
\* the message of the error the token request ended with; oauthReqs and
\* basicReqs count the fetches issued; removed is the entry the lookup of the
\* call deleted from the store (none: Absent)
Suspended(credentials, pc, t0, oauthError, oauthReqs, basicReqs, removed) ==
    [pc |-> pc, credentials |-> credentials, now |-> t0,
     oauthError |-> oauthError, oauthReqs |-> oauthReqs, basicReqs |-> basicReqs,
     removed |-> removed]

\* a call that hedges: it issues the probe together with the token request
awaitTokenRequest_Hedged(credentials, t0, removed) ==
    Suspended(credentials, "oauth", t0, "", 1, 1, removed)

\* the call once it has issued the token request and awaits it
awaitTokenRequest(credentials, t0, removed) ==
    Suspended(credentials, "oauth", t0, "", 1, 0, removed)

\* a call that retries: after the first failure of the token request it
\* issues the token request once more, and the probe after the second failure
awaitProbe_Retry(call, message) ==
    IF call.oauthReqs = 1
    THEN Suspended(call.credentials, "oauth", call.now, "", call.oauthReqs + 1,
                   call.basicReqs, call.removed)
    ELSE Suspended(call.credentials, "basic", call.now, message, call.oauthReqs,
                   call.basicReqs + 1, call.removed)

\* the call once the token request has failed with message and it has issued
\* the probe and awaits it
awaitProbe(call, message) ==
    Suspended(call.credentials, "basic", call.now, message, call.oauthReqs,
              call.basicReqs + 1, call.removed)

\* the calls suspended now
Running == BagToSet(calls)

\* a call may begin
MayBegin == BagCardinality(calls) < MaxInFlight

Suspend(call) == calls (+) SetToBag({call})

Resume(call) == calls (-) SetToBag({call})

NoReturn == [op |-> "none"]

\* what preAuthentication hands back: the Authorization header
Returned(credentials, phase, header, call) ==
    [op |-> "resolve", credentials |-> credentials, phase |-> phase,
     outcome |-> "header", value |-> header, oauthReqs |-> call.oauthReqs,
     basicReqs |-> call.basicReqs, removed |-> call.removed]

\* what preAuthentication throws
Failed(credentials, phase, message, call) ==
    [op |-> "resolve", credentials |-> credentials, phase |-> phase,
     outcome |-> "error", value |-> message, oauthReqs |-> call.oauthReqs,
     basicReqs |-> call.basicReqs, removed |-> call.removed]

\* a call that ends before any fetch
NoRequests(removed) == [oauthReqs |-> 0, basicReqs |-> 0, removed |-> removed]

\* a getInstance that makes a new instance at every use
getInstance_Fresh ==
    /\ instance' = TRUE
    /\ cleanupInterval' = TRUE
    /\ timers' = startCleanupInterval(FALSE, timers)

\* TokenCacheManager.getInstance(): the instance is made on first use, and
\* its constructor starts the cleanup timer; a new instance holds no timer
\* before that
getInstance ==
    /\ instance' = TRUE
    /\ cleanupInterval' = (IF instance THEN cleanupInterval ELSE TRUE)
    /\ timers' = (IF instance THEN timers ELSE startCleanupInterval(FALSE, timers))

\* preAuthentication -> getAccessToken, up to the first await
ApiBegin(credentials) ==
    LET lookup      == getByCredentials(CredentialType, credentials)
        cachedToken == lookup.ret
        missing     == missingFields(credentials)
        key         == generateKey(CredentialType, credentials)
        removed     == IF lookup.cache = cache THEN Absent ELSE cache[key]
    IN  /\ resolver = OAuth2API
        /\ getInstance
        /\ cache' = lookup.cache
        /\ IF cachedToken # Absent /\ cachedToken.expires > now
           THEN /\ ret' = Returned(credentials, "cache",
                                   formatAuthHeader(cachedToken.token),
                                   NoRequests(removed))
                /\ calls' = calls
           ELSE IF Len(missing) > 0
           THEN /\ ret' = Failed(credentials, "validate",
                                 "Pre-authentication failed: "
                                     \o "Missing required credentials: "
                                     \o Join(missing, ", "),
                                   NoRequests(removed))
                /\ calls' = calls
           ELSE /\ ret' = NoReturn
                /\ calls' = Suspend(awaitTokenRequest(credentials, 0, removed))
        /\ UNCHANGED <<now, resolver, keyGenerators, cacheConfigs, tokenCache>>

\* a call of preAuthentication begins while fewer than MaxInFlight are pending
ApiStart(credentials) == MayBegin /\ ApiBegin(credentials)

\* a token step that lets a body that is not JSON end the call with the
\* parser's own error, with no probe
ApiOAuthResponse_Raw(call, response) ==
    LET result == tryOAuth2Authentication(response)
    IN  /\ resolver = OAuth2API
        /\ call \in Running
        /\ call.pc = "oauth"
        /\ response \in Reachable(call.credentials, TokenResponses)
        /\ IF result.ok
           THEN /\ getInstance
                /\ cache' = setByCredentials(CredentialType, call.credentials,
                                createOAuthEntry(CredentialType,
                                    result.access_token, result.expires_in))
                /\ ret' = Returned(call.credentials, "oauth",
                                   formatAuthHeader(result.access_token), call)
                /\ calls' = Resume(call)
           ELSE IF response.kind = "text"
           THEN /\ ret' = Failed(call.credentials, "oauth", result.message, call)
                /\ calls' = Resume(call)
                /\ UNCHANGED <<instance, cleanupInterval, timers, cache>>
           ELSE /\ ret' = NoReturn
                /\ calls' = Resume(call) (+) SetToBag({awaitProbe(call, result.message)})
                /\ UNCHANGED <<instance, cleanupInterval, timers, cache>>
        /\ UNCHANGED <<now, resolver, keyGenerators, cacheConfigs, tokenCache>>

\* the token request of call comes back with response
ApiOAuthResponse(call, response) ==
    LET result == tryOAuth2Authentication(response)
    IN  /\ resolver = OAuth2API
        /\ call \in Running
        /\ call.pc = "oauth"
        /\ response \in Reachable(call.credentials, TokenResponses)
        /\ IF result.ok
           THEN /\ getInstance
                /\ cache' = setByCredentials(CredentialType, call.credentials,
                                createOAuthEntry(CredentialType,
                                    result.access_token, result.expires_in))
                /\ ret' = Returned(call.credentials, "oauth",
                                   formatAuthHeader(result.access_token), call)
                /\ calls' = Resume(call)
           ELSE /\ ret' = NoReturn
                /\ calls' = Resume(call) (+) SetToBag({awaitProbe(call, result.message)})
                /\ UNCHANGED <<instance, cleanupInterval, timers, cache>>
        /\ UNCHANGED <<now, resolver, keyGenerators, cacheConfigs, tokenCache>>

\* the probe of call comes back with response
ApiBasicResponse(call, response) ==
    LET result == tryBasicAuthentication(response)
        header == basicAuthHeader(call.credentials)
    IN  /\ resolver = OAuth2API
        /\ call \in Running
        /\ call.pc = "basic"
        /\ response \in Reachable(call.credentials, ProbeResponses)
        /\ IF result.ok
           THEN /\ getInstance
                /\ cache' = setByCredentials(CredentialType, call.credentials,
                                createBasicAuthEntry(CredentialType, header))
                /\ ret' = Returned(call.credentials, "basic",
                                   formatAuthHeader(header), call)
           ELSE /\ ret' = Failed(call.credentials, "basic",
                                 "Pre-authentication failed: "
                                     \o "All authentication methods failed. OAuth2: "
                                     \o call.oauthError \o ". Basic Auth: "
                                     \o result.message, call)
                /\ UNCHANGED <<instance, cleanupInterval, timers, cache>>
        /\ calls' = Resume(call)
        /\ UNCHANGED <<now, resolver, keyGenerators, cacheConfigs, tokenCache>>

----------------------------------------------------------------------------
(* ViridemOauth2, the resolver with its own module-level tokenCache. *)

\* `${credentials.baseUrl}-${credentials.username}`
cacheKey(credentials) ==
    Render(credentials, "baseUrl") \o "-" \o Render(credentials, "username")

\* the header preAuthentication builds from the token
authHeader(token) ==
    IF StartsWith(token, "Basic ") \/ StartsWith(token, "Bearer ")
    THEN token
    ELSE "Bearer " \o token

\* the validation of getAccessToken passes
credentialsValid(credentials) ==
    /\ Truthy(credentials, "client_id")
    /\ Truthy(credentials, "client_secret")
    /\ Truthy(credentials, "username")
    /\ Truthy(credentials, "password")

\* the try block of getAccessToken from the response on
tokenRequestResult(response) ==
    IF response.kind = "reject" THEN Thrown(response.statusText)
    ELSE IF ~response.ok
    THEN Thrown("HTTP " \o ToString(response.status) \o ": " \o response.statusText)
    ELSE IF response.kind # "json" THEN Thrown("Unexpected token < in JSON")
    ELSE IF Truthy(response.data, "error") \/ ~Truthy(response.data, "access_token")
    THEN Thrown("OAuth2 Error: "
                    \o OrElse(response.data, "error", "No access token received")
                    \o " - " \o OrElse(response.data, "error_description", ""))
    ELSE [ok |-> TRUE, access_token |-> response.data.access_token,
          expiresIn |-> (IF "expires_in" \in DOMAIN response.data
                            /\ response.data.expires_in # 0
                         THEN response.data.expires_in ELSE 3600) * 1000]

\* getAccessToken up to the first await
LegacyBegin(credentials) ==
    LET key     == cacheKey(credentials)
        removed == Absent
    IN  /\ resolver = Oauth2
        /\ IF key \in DOMAIN tokenCache /\ tokenCache[key].expires > now
           THEN /\ ret' = Returned(credentials, "cache",
                                   authHeader(tokenCache[key].token),
                                   NoRequests(removed))
                /\ calls' = calls
           ELSE IF ~credentialsValid(credentials)
           THEN /\ ret' = Failed(credentials, "validate",
                                 "Missing required credentials: client_id, "
                                     \o "client_secret, username, or password",
                                   NoRequests(removed))
                /\ calls' = calls
           ELSE /\ ret' = NoReturn
                /\ calls' = Suspend(awaitTokenRequest(credentials, now, removed))
        /\ UNCHANGED <<now, resolver, instance, cache, keyGenerators,
                       cacheConfigs, cleanupInterval, timers, tokenCache>>

\* a call of preAuthentication begins while fewer than MaxInFlight are pending
LegacyStart(credentials) == MayBegin /\ LegacyBegin(credentials)

\* the token request of call comes back with response
LegacyOAuthResponse(call, response) ==
    LET result == tokenRequestResult(response)
        key    == cacheKey(call.credentials)
    IN  /\ resolver = Oauth2
        /\ call \in Running
        /\ call.pc = "oauth"
        /\ response \in Reachable(call.credentials, TokenResponses)
        /\ IF result.ok
           THEN /\ tokenCache' =
                      (key :> [token |-> result.access_token,
                               expires |-> call.now + result.expiresIn - 60000])
                          @@ tokenCache
                /\ ret' = Returned(call.credentials, "oauth",
                                   authHeader(result.access_token), call)
                /\ calls' = Resume(call)
           ELSE /\ ret' = NoReturn
                /\ calls' = Resume(call) (+) SetToBag({awaitProbe(call, result.message)})
                /\ tokenCache' = tokenCache
        /\ UNCHANGED <<now, resolver, instance, cache, keyGenerators,
                       cacheConfigs, cleanupInterval, timers>>

\* the probe of call comes back with response
LegacyBasicResponse(call, response) ==
    LET         key    == cacheKey(call.credentials)
        header == basicAuthHeader(call.credentials)
    IN  /\ resolver = Oauth2
        /\ call \in Running
        /\ call.pc = "basic"
        /\ response \in Reachable(call.credentials, ProbeResponses)
        /\ IF response.kind # "reject" /\ response.ok
           THEN /\ tokenCache' =
                      (key :> [token |-> header, expires |-> call.now + 3600000])
                          @@ tokenCache
                /\ ret' = Returned(call.credentials, "basic", authHeader(header), call)
           ELSE /\ ret' = Failed(call.credentials, "basic",
                                 "Authentication failed: OAuth2 failed ("
                                     \o call.oauthError
                                     \o "), Basic Auth also failed", call)
                /\ tokenCache' = tokenCache
        /\ calls' = Resume(call)
        /\ UNCHANGED <<now, resolver, instance, cache, keyGenerators,
                       cacheConfigs, cleanupInterval, timers>>

----------------------------------------------------------------------------
(* Time and the cleanup timer. *)

Tick ==
    /\ \E t \in Instants : t > now /\ now' = t
    /\ ret' = NoReturn
    /\ UNCHANGED <<resolver, instance, cache, keyGenerators, cacheConfigs,
                   cleanupInterval, timers, tokenCache, calls>>

\* the interval callback of the live instance
TimerSweep ==
    /\ cleanupInterval
    /\ cache' = cleanupExpiredTokens
    /\ ret' = NoReturn
    /\ UNCHANGED <<now, resolver, instance, keyGenerators, cacheConfigs,
                   cleanupInterval, timers, tokenCache, calls>>

----------------------------------------------------------------------------
(* The process after its modules are loaded: loading ViridemOAuth2API makes *)
(* the cache instance and registers the key generator and the configuration.*)

Loaded(r) ==
    /\ now = 0
    /\ resolver = r
    /\ instance = (r = OAuth2API)
    /\ cleanupInterval = (r = OAuth2API)
    /\ timers = (IF r = OAuth2API THEN 1 ELSE 0)
    /\ cache = Absent
    /\ keyGenerators = (IF r = OAuth2API THEN {CredentialType} ELSE {})
    /\ cacheConfigs = (IF r = OAuth2API
                       THEN CredentialType :>
                              [bufferTime |-> 60000, defaultTokenExpiry |-> 3600000,
                               minCacheDuration |-> 300000, cleanupInterval |-> 300000]
                       ELSE Absent)
    /\ tokenCache = Absent
    /\ calls = EmptyBag
    /\ ret = NoReturn

Init == \E r \in {OAuth2API, Oauth2} : Loaded(r)

Next ==
    \/ \E credentials \in Records : ApiStart(credentials)
    \/ \E call \in Running, response \in TokenResponses :
          ApiOAuthResponse(call, response)
    \/ \E call \in Running, response \in ProbeResponses :
          ApiBasicResponse(call, response)
    \/ \E credentials \in Records : LegacyStart(credentials)
    \/ \E call \in Running,
          response \in TokenResponses \cup {Rejected("Failed to parse URL")} :
          LegacyOAuthResponse(call, response)
    \/ \E call \in Running,
          response \in ProbeResponses \cup {Rejected("Failed to parse URL")} :
          LegacyBasicResponse(call, response)
    \/ Tick
    \/ TimerSweep

Spec == Init /\ [][Next]_vars

----------------------------------------------------------------------------
(* The cache used directly, as its tests and other credential types use it. *)

Keys == {"k1", "k2"}

CredentialTypes == {CredentialType, "OtherAPI"}

\* expiry instants of the entries stored directly: the second clock reading,
\* the millisecond before it and the millisecond after it
Expiries == {239999, 240000, 240001}

Entries ==
    [token : {"tokA"}, expires : Expiries, type : {"oauth"}]
        \cup [token : {"Basic dTE6cDE="}, expires : Expiries, type : {"basic"}]

\* the partial configurations registered
PartialConfigs ==
    {Absent, "bufferTime" :> 120000, "minCacheDuration" :> 600000,
     "bufferTime" :> 300000}

ExpiresInSeconds == {0, 1, 299, 300, 301, 3600, 7200}

\* what a cache method handed back; before is the store it was called on
Handed(op, key, value) ==
    [op |-> op, key |-> key, value |-> value, before |-> cache]

CacheGet(key) ==
    /\ getInstance
    /\ cache' = get(key).cache
    /\ ret' = Handed("get", key, get(key).ret)
    /\ UNCHANGED <<now, resolver, keyGenerators, cacheConfigs, tokenCache, calls>>

CacheHas(key) ==
    /\ getInstance
    /\ cache' = has(key).cache
    /\ ret' = Handed("has", key, has(key).ret)
    /\ UNCHANGED <<now, resolver, keyGenerators, cacheConfigs, tokenCache, calls>>

CacheSet(key, entry) ==
    /\ getInstance
    /\ cache' = set(key, entry)
    /\ ret' = Handed("set", key, entry)
    /\ UNCHANGED <<now, resolver, keyGenerators, cacheConfigs, tokenCache, calls>>

CacheDelete(key) ==
    /\ getInstance
    /\ cache' = delete(key).cache
    /\ ret' = Handed("delete", key, delete(key).ret)
    /\ UNCHANGED <<now, resolver, keyGenerators, cacheConfigs, tokenCache, calls>>

RegisterCacheConfig(credentialType, config) ==
    /\ getInstance
    /\ cacheConfigs' = registerCacheConfig(credentialType, config)
    /\ ret' = NoReturn
    /\ UNCHANGED <<now, resolver, cache, keyGenerators, tokenCache, calls>>

CreateOAuthEntry(credentialType, token, expiresInSeconds) ==
    /\ getInstance
    /\ ret' = [op |-> "createOAuthEntry", credentialType |-> credentialType,
               token |-> token, expiresInSeconds |-> expiresInSeconds,
               value |-> createOAuthEntry(credentialType, token, expiresInSeconds)]
    /\ UNCHANGED <<now, resolver, cache, keyGenerators, cacheConfigs, tokenCache,
                   calls>>

CreateBasicAuthEntry(credentialType, token) ==
    /\ getInstance
    /\ ret' = [op |-> "createBasicAuthEntry", credentialType |-> credentialType,
               token |-> token,
               value |-> createBasicAuthEntry(credentialType, token)]
    /\ UNCHANGED <<now, resolver, cache, keyGenerators, cacheConfigs, tokenCache,
                   calls>>

\* the records whose keys are derived: two users, with and without the
\* clientId the registered generator looks at, with and without a user name
KeyRecords ==
    {("baseUrl" :> "h") @@ ("username" :> u) @@ ("client_id" :> "c") : u \in {"u1", "u2"}}
        \cup {("baseUrl" :> "h") @@ ("username" :> u) @@ ("clientId" :> "c") :
                 u \in {"u1", "u2"}}
        \cup {("baseUrl" :> "h") @@ ("client_id" :> "c")}

\* TokenCacheManager.getInstance().generateKey(credentialType, credentials)
GenerateKey(credentialType, credentials) ==
    /\ getInstance
    /\ ret' = [op |-> "generateKey", credentialType |-> credentialType,
               credentials |-> credentials,
               value |-> generateKey(credentialType, credentials)]
    /\ UNCHANGED <<now, resolver, cache, keyGenerators, cacheConfigs, tokenCache,
                   calls>>

\* TokenCacheManager.getInstance().cleanupNow()
CleanupNow ==
    /\ getInstance
    /\ cache' = cleanupExpiredTokens
    /\ ret' = Handed("cleanupNow", "", Absent)
    /\ UNCHANGED <<now, resolver, keyGenerators, cacheConfigs, tokenCache, calls>>

\* TokenCacheManager.getInstance().getStats()
GetStats ==
    /\ getInstance
    /\ ret' = Handed("getStats", "", getStats)
    /\ UNCHANGED <<now, resolver, cache, keyGenerators, cacheConfigs, tokenCache,
                   calls>>

\* TokenCacheManager.reset()
Reset ==
    /\ instance' = reset.instance
    /\ cleanupInterval' = reset.cleanupInterval
    /\ timers' = reset.timers
    /\ cache' = reset.cache
    /\ keyGenerators' = reset.keyGenerators
    /\ cacheConfigs' = reset.cacheConfigs
    /\ ret' = Handed("reset", "", Absent)
    /\ UNCHANGED <<now, resolver, tokenCache, calls>>

\* TokenCacheManager.getInstance().clear()
CacheClear ==
    /\ getInstance
    /\ cache' = Absent
    /\ ret' = Handed("clear", "", Absent)
    /\ UNCHANGED <<now, resolver, keyGenerators, cacheConfigs, tokenCache, calls>>

\* TokenCacheManager.getInstance().keys()
CacheKeys ==
    /\ getInstance
    /\ ret' = Handed("keys", "", keys)
    /\ UNCHANGED <<now, resolver, cache, keyGenerators, cacheConfigs, tokenCache,
                   calls>>

CacheNext ==
    \/ \E key \in Keys : CacheGet(key)
    \/ \E key \in Keys : CacheHas(key)
    \/ \E key \in Keys, entry \in Entries : CacheSet(key, entry)
    \/ \E key \in Keys : CacheDelete(key)
    \/ CacheClear
    \/ CacheKeys
    \/ \E credentialType \in CredentialTypes, credentials \in KeyRecords :
          GenerateKey(credentialType, credentials)
    \/ CleanupNow
    \/ GetStats
    \/ Reset
    \/ Tick
    \/ TimerSweep

SpecCache == Loaded(OAuth2API) /\ [][CacheNext]_vars

\* the configurations and the entries made under them
EntryNext ==
    \/ \E credentialType \in CredentialTypes, config \in PartialConfigs :
          RegisterCacheConfig(credentialType, config)
    \/ \E credentialType \in CredentialTypes, expiresInSeconds \in ExpiresInSeconds :
          CreateOAuthEntry(credentialType, "tokA", expiresInSeconds)
    \/ \E credentialType \in CredentialTypes :
          CreateBasicAuthEntry(credentialType, "Basic dTE6cDE=")
    \/ Tick

SpecEntry == Loaded(OAuth2API) /\ [][EntryNext]_vars

\* Calls that race for one key: the calls are for the same record, and
\* every token request is refused, or granted with its own token.
MaxRacers == 2

RaceRecords == {Complete("u1")}

RaceTokenResponses ==
    {Http(500, "Internal Server Error", "oops"),
     Json("access_token" :> "tokA"),
     Json(("access_token" :> "tokB") @@ ("expires_in" :> 1))}

MayRace == BagCardinality(calls) < MaxRacers

RaceNext ==
    \/ \E credentials \in RaceRecords : MayRace /\ ApiBegin(credentials)
    \/ \E call \in Running, response \in RaceTokenResponses :
          ApiOAuthResponse(call, response)
    \/ \E call \in Running, response \in ProbeResponses :
          ApiBasicResponse(call, response)
    \/ \E credentials \in RaceRecords : MayRace /\ LegacyBegin(credentials)
    \/ \E call \in Running, response \in RaceTokenResponses :
          LegacyOAuthResponse(call, response)
    \/ \E call \in Running, response \in ProbeResponses :
          LegacyBasicResponse(call, response)
    \/ Tick
    \/ TimerSweep

SpecRace == Init /\ [][RaceNext]_vars

----------------------------------------------------------------------------
(* The resolvers under the assumption that every request issued comes back:
   a call that waits for a response is not left waiting for ever. *)

\* a complete record, one whose URL has no base, and one that lacks a field
LiveRecords ==
    {Complete("u1"), Without(Complete("u1"), "baseUrl"),
     Without(Complete("u1"), "password")}

\* a request of a call for the record comes back
Completes(credentials) ==
    \E call \in Running :
       /\ call.credentials = credentials
       /\ \/ \E response \in TokenResponses \cup {Rejected("Failed to parse URL")} :
                ApiOAuthResponse(call, response) \/ LegacyOAuthResponse(call, response)
          \/ \E response \in ProbeResponses \cup {Rejected("Failed to parse URL")} :
                ApiBasicResponse(call, response) \/ LegacyBasicResponse(call, response)

LiveNext ==
    \/ \E credentials \in LiveRecords : ApiStart(credentials)
    \/ \E call \in Running, response \in TokenResponses :
          ApiOAuthResponse(call, response)
    \/ \E call \in Running, response \in ProbeResponses :
          ApiBasicResponse(call, response)
    \/ \E credentials \in LiveRecords : LegacyStart(credentials)
    \/ \E call \in Running,
          response \in TokenResponses \cup {Rejected("Failed to parse URL")} :
          LegacyOAuthResponse(call, response)
    \/ \E call \in Running,
          response \in ProbeResponses \cup {Rejected("Failed to parse URL")} :
          LegacyBasicResponse(call, response)
    \/ Tick
    \/ TimerSweep

SpecLive ==
    /\ Init
    /\ [][LiveNext]_vars
    /\ \A credentials \in LiveRecords : WF_vars(Completes(credentials))

----------------------------------------------------------------------------
(* Two users of one server and one client: the records of the credential
   form for u1 and u2, and a token endpoint that grants each user a token of
   their own. *)

IdentityRecords == {Complete("u1"), Complete("u2")}

\* the grant of the token endpoint to the user of the record
GrantFor(credentials) ==
    IF credentials.username = "u1"
    THEN Json("access_token" :> "tokA")
    ELSE Json(("access_token" :> "tokB") @@ ("expires_in" :> 1))

\* the token endpoint refuses the request or grants the user's token
IdentityTokenResponses(credentials) ==
    {Http(500, "Internal Server Error", "oops"), GrantFor(credentials)}

IdentityNext ==
    \/ \E credentials \in IdentityRecords : ApiStart(credentials)
    \/ \E call \in Running :
          \E response \in IdentityTokenResponses(call.credentials) :
             ApiOAuthResponse(call, response)
    \/ \E call \in Running, response \in ProbeResponses :
          ApiBasicResponse(call, response)
    \/ \E credentials \in IdentityRecords : LegacyStart(credentials)
    \/ \E call \in Running :
          \E response \in IdentityTokenResponses(call.credentials) :
             LegacyOAuthResponse(call, response)
    \/ \E call \in Running, response \in ProbeResponses :
          LegacyBasicResponse(call, response)
    \/ Tick
    \/ TimerSweep

SpecIdentity == Init /\ [][IdentityNext]_vars

----------------------------------------------------------------------------
(* The cleanup timer in time: the instance is made when the module loads, at
   reading 0, and its interval callback runs at the multiples of the period
   given to setInterval. *)

\* the period startCleanupInterval gives to setInterval
CleanupPeriod == 300000

\* number of clock readings of the timer's time line after the first one
MaxTimerTick == 9

\* the clock readings: every 100 seconds
TimerInstants == {k * 100000 : k \in 0..MaxTimerTick}

\* the configurations registered: a shorter and a longer cleanup interval
TimerConfigs == {"cleanupInterval" :> 200000, "cleanupInterval" :> 600000}

\* the clock moves on to the next reading
TimerTick ==
    /\ now + 100000 \in TimerInstants
    /\ now' = now + 100000
    /\ ret' = NoReturn
    /\ UNCHANGED <<resolver, instance, cache, keyGenerators, cacheConfigs,
                   cleanupInterval, timers, tokenCache, calls>>

\* the interval callback, at a multiple of the period after the start
TimedSweep ==
    /\ now > 0
    /\ now % CleanupPeriod = 0
    /\ TimerSweep

TimerNext ==
    \/ \E config \in TimerConfigs : RegisterCacheConfig(CredentialType, config)
    \/ \E entry \in Entries : CacheSet("k1", entry)
    \/ TimerTick
    \/ TimedSweep

SpecTimer == Loaded(OAuth2API) /\ [][TimerNext]_vars

----------------------------------------------------------------------------
(* Records of one user that differ in their secrets: another password,
   another client secret, and the same with the clientId field that the
   registered key generator looks at. *)

\* the records of the credential form, which the resolvers are called with
SecretCallRecords ==
    {Complete("u1"),
     [Complete("u1") EXCEPT !.password = "p2"],
     [Complete("u1") EXCEPT !.client_secret = "s2"]}

\* the records whose keys are derived
SecretRecords ==
    SecretCallRecords
        \cup {Complete("u1") @@ ("clientId" :> "c"),
              [Complete("u1") EXCEPT !.password = "p2"] @@ ("clientId" :> "c")}

\* the token endpoint refuses the request or grants a token
SecretTokenResponses ==
    {Http(500, "Internal Server Error", "oops"), Json("access_token" :> "tokA")}

SecretNext ==
    \/ \E credentialType \in CredentialTypes, credentials \in SecretRecords :
          GenerateKey(credentialType, credentials)
    \/ \E credentials \in SecretCallRecords : ApiStart(credentials)
    \/ \E call \in Running, response \in SecretTokenResponses :
          ApiOAuthResponse(call, response)
    \/ \E call \in Running, response \in ProbeResponses :
          ApiBasicResponse(call, response)
    \/ \E credentials \in SecretCallRecords : LegacyStart(credentials)
    \/ \E call \in Running, response \in SecretTokenResponses :
          LegacyOAuthResponse(call, response)
    \/ \E call \in Running, response \in ProbeResponses :
          LegacyBasicResponse(call, response)
    \/ Tick
    \/ TimerSweep

SpecSecret == Init /\ [][SecretNext]_vars

----------------------------------------------------------------------------
(* The formatting of the Authorization header, on strings handed to it
   directly and on the values the resolvers store and serve. *)

\* the strings formatted: a bare token, a Basic header, a Bearer header, the
\* scheme names without the space after them, a scheme in lower case, and
\* the empty string
HeaderTokens ==
    {"tokA", "Basic dTE6cDE=", "Bearer tokA", "Basic", "Bearer", "bearer tokA", ""}

HeaderRecords == {Complete("u1")}

\* the token endpoint refuses, or grants a bare token, a token that begins
\* with "Basic " or a token that begins with "Bearer "
HeaderTokenResponses ==
    {Http(500, "Internal Server Error", "oops"),
     Json("access_token" :> "tokA"),
     Json(("access_token" :> "Basic tokC") @@ ("expires_in" :> 3600)),
     Json("access_token" :> "Bearer tokD")}

\* ViridemOAuth2API.formatAuthHeader(token), and the same token through the
\* lines of ViridemOauth2.preAuthentication that build authHeader
FormatAuthHeader(token) ==
    /\ ret' = [op |-> "formatAuthHeader", token |-> token,
               value |-> formatAuthHeader(token), legacy |-> authHeader(token)]
    /\ UNCHANGED <<now, resolver, instance, cleanupInterval, timers, cache,
                   keyGenerators, cacheConfigs, tokenCache, calls>>

HeaderNext ==
    \/ \E token \in HeaderTokens : FormatAuthHeader(token)
    \/ \E credentials \in HeaderRecords : ApiStart(credentials)
    \/ \E call \in Running, response \in HeaderTokenResponses :
          ApiOAuthResponse(call, response)
    \/ \E call \in Running, response \in ProbeResponses :
          ApiBasicResponse(call, response)
    \/ \E credentials \in HeaderRecords : LegacyStart(credentials)
    \/ \E call \in Running, response \in HeaderTokenResponses :
          LegacyOAuthResponse(call, response)
    \/ \E call \in Running, response \in ProbeResponses :
          LegacyBasicResponse(call, response)
    \/ Tick
    \/ TimerSweep

SpecHeader == Init /\ [][HeaderNext]_vars

----------------------------------------------------------------------------
(* What the claims speak of. *)

\* the store of the resolver in use
Store == IF resolver = OAuth2API THEN cache ELSE tokenCache

\* the key the resolver in use derives from a record
KeyOf(credentials) ==
    IF resolver = OAuth2API THEN generateKey(CredentialType, credentials)
    ELSE cacheKey(credentials)

\* what a store holds under a key
At(store, key) == IF key \in DOMAIN store THEN store[key] ELSE Absent

\* a step in which a call for the record began
Began(credentials) ==
    \/ /\ ret'.op = "resolve"
       /\ ret'.phase \in {"cache", "validate"}
       /\ ret'.credentials = credentials
    \/ \E call \in BagToSet(calls') :
          /\ call.pc = "oauth"
          /\ call.credentials = credentials
          /\ CopiesIn(call, calls') > CopiesIn(call, calls)

\* the token response is a success in the words of the specification: 2xx,
\* a JSON body, no error field, an access_token that is not empty
TokenGranted(response) ==
    /\ response.kind = "json"
    /\ response.status >= 200 /\ response.status <= 299
    /\ "error" \notin DOMAIN response.data
    /\ "access_token" \in DOMAIN response.data
    /\ response.data.access_token # ""

\* the probe response is a success: any 2xx
ProbeAccepted(response) ==
    response.kind # "reject" /\ response.status >= 200 /\ response.status <= 299

\* a step in which the token request of call came back with response
TokenStep(call, response) ==
    ApiOAuthResponse(call, response) \/ LegacyOAuthResponse(call, response)

\* a step in which the probe of call came back with response
ProbeStep(call, response) ==
    ApiBasicResponse(call, response) \/ LegacyBasicResponse(call, response)

AllTokenResponses == TokenResponses \cup {Rejected("Failed to parse URL")}
AllProbeResponses == ProbeResponses \cup {Rejected("Failed to parse URL")}

----------------------------------------------------------------------------
(* C1 *)

\* C1: get on a key whose entry has expired (expires <= now) hands back
\* nothing and removes the entry; get never hands back an entry unless its
\* expiry is strictly later than now; has answers true only for a stored,
\* unexpired entry; and a key enters the store through set alone, so after
\* the removal has stays false until the key is set again.
C1_ExpiredNeverServed ==
    [][\A key \in Keys :
          /\ (ret'.op = "get" /\ ret'.key = key) =>
                /\ (key \in DOMAIN cache /\ cache[key].expires <= now) =>
                      (ret'.value = Absent /\ key \notin DOMAIN cache')
                /\ ret'.value # Absent =>
                      (ret'.value.expires > now /\ ret'.value = At(cache, key))
          /\ (ret'.op = "has" /\ ret'.key = key /\ ret'.value) =>
                (key \in DOMAIN cache /\ cache[key].expires > now
                    /\ cache' = cache)
          /\ (ret'.op = "has" /\ ret'.key = key /\ ~ret'.value) =>
                key \notin DOMAIN cache'
          /\ (key \notin DOMAIN cache /\ key \in DOMAIN cache') =>
                (ret'.op = "set" /\ ret'.key = key)]_vars

\* get has just removed an expired entry and handed back nothing
C1_Witness ==
    /\ ret.op = "get"
    /\ ret.key \in DOMAIN ret.before
    /\ ret.before[ret.key].expires <= now
    /\ ret.value = Absent
    /\ ret.key \notin DOMAIN cache

----------------------------------------------------------------------------
(* C2 *)

\* the Authorization header that belongs to a stored value
HeaderOf(token) ==
    IF StartsWith(token, "Basic ") \/ StartsWith(token, "Bearer ")
    THEN token
    ELSE "Bearer " \o token

\* C2: a call that begins while the store holds an unexpired entry under
\* the key of its record returns the header of that entry at once, issues
\* neither a token request nor a probe and leaves the store alone; and a
\* call that returns a header after a request has left under that key the
\* value whose header it returned, so the next call before the expiry
\* returns the same header with no request.
C2_FreshEntryServedWithoutRequest ==
    [][\A credentials \in Records :
          LET entry == At(Store, KeyOf(credentials))
          IN  /\ (Began(credentials) /\ entry # Absent /\ entry.expires > now) =>
                    /\ ret'.op = "resolve"
                    /\ ret'.phase = "cache"
                    /\ ret'.outcome = "header"
                    /\ ret'.value = HeaderOf(entry.token)
                    /\ ret'.oauthReqs = 0
                    /\ ret'.basicReqs = 0
                    /\ calls' = calls
                    /\ Store' = Store
              /\ (/\ ret'.op = "resolve"
                  /\ ret'.credentials = credentials
                  /\ ret'.outcome = "header"
                  /\ ret'.phase # "cache") =>
                    /\ At(Store', KeyOf(credentials)) # Absent
                    /\ HeaderOf(At(Store', KeyOf(credentials)).token) = ret'.value]_vars

\* a call has just been served from an entry that an earlier call wrote
C2_Witness ==
    /\ ret.op = "resolve"
    /\ ret.phase = "cache"
    /\ ret.outcome = "header"
    /\ ret.value = "Bearer tokA"
    /\ ret.oauthReqs = 0
    /\ ret.basicReqs = 0
    /\ At(Store, KeyOf(ret.credentials)) # Absent

----------------------------------------------------------------------------
(* C3 *)

\* the fields the specification requires of a record
RequiredOfRecord == {"client_id", "client_secret", "username", "password", "baseUrl"}

\* the required fields a record lacks: absent or empty
Lacking(credentials) == {f \in RequiredOfRecord : ~Truthy(credentials, f)}

\* C3: a call for a record that lacks a required field (client id, client
\* secret, username, password, baseUrl), begun while the store holds no
\* unexpired entry under its key, fails at once with a validation error
\* whose message names exactly the fields the record lacks, and issues no
\* request.
C3_ValidationNamesMissingFields ==
    [][\A credentials \in Records :
          LET entry == At(Store, KeyOf(credentials))
          IN  (/\ Began(credentials)
               /\ Lacking(credentials) # {}
               /\ ~(entry # Absent /\ entry.expires > now)) =>
                 /\ ret'.op = "resolve"
                 /\ ret'.phase = "validate"
                 /\ ret'.outcome = "error"
                 /\ \A f \in RequiredOfRecord :
                        Contains(ret'.value, f) <=> f \in Lacking(credentials)
                 /\ ret'.oauthReqs = 0
                 /\ ret'.basicReqs = 0
                 /\ calls' = calls]_vars

----------------------------------------------------------------------------
(* C4 *)

\* C4: when the token request of a call comes back 2xx with a JSON body
\* that has no error field and a non-empty access_token, the call writes
\* under its key an entry of kind OAuth holding that access_token, issues
\* no probe, and returns the header "Bearer " followed by the access_token.
C4_GrantedTokenBecomesBearer ==
    [][\A call \in Running : \A response \in AllTokenResponses :
          (/\ resolver = OAuth2API
           /\ call.pc = "oauth"
           /\ TokenGranted(response)
           /\ TokenStep(call, response)) =>
             LET entry == At(cache', KeyOf(call.credentials))
             IN  /\ entry # Absent
                 /\ entry.type = "oauth"
                 /\ entry.token = response.data.access_token
                 /\ ret'.op = "resolve"
                 /\ ret'.outcome = "header"
                 /\ ret'.basicReqs = 0
                 /\ calls' = Resume(call)
                 /\ ret'.value = "Bearer " \o response.data.access_token]_vars

----------------------------------------------------------------------------
(* C5 *)

----------------------------------------------------------------------------
(* C6 *)

\* "Basic " followed by base64(username:password) of the complete records
ExpectedBasicHeader(credentials) ==
    IF credentials.username = "u1" THEN "Basic dTE6cDE=" ELSE "Basic dTI6cDE="

\* C6: when the token request of a call of ViridemOAuth2API has failed and
\* its probe comes back 2xx, the call returns "Basic base64(username:password)"
\* and writes under its key an entry of kind Basic that holds this header
\* and expires defaultTokenExpiry, one hour, after the instant of the write.
C6_AcceptedProbeCachesBasicHeader ==
    [][\A call \in Running : \A response \in AllProbeResponses :
          (/\ resolver = OAuth2API
           /\ call.pc = "basic"
           /\ ProbeAccepted(response)
           /\ ProbeStep(call, response)) =>
             /\ call.oauthError # ""
             /\ ret'.op = "resolve"
             /\ ret'.outcome = "header"
             /\ ret'.value = ExpectedBasicHeader(call.credentials)
             /\ At(cache', KeyOf(call.credentials)) =
                    [token   |-> ExpectedBasicHeader(call.credentials),
                     expires |-> now + 3600000,
                     type    |-> "basic"]]_vars

\* a Basic entry has just been written at the second clock reading, an
\* hour before its expiry
C6_Witness ==
    /\ resolver = OAuth2API
    /\ ret.op = "resolve"
    /\ ret.phase = "basic"
    /\ ret.outcome = "header"
    /\ ret.value = "Basic dTI6cDE="
    /\ now = 240000
    /\ At(cache, KeyOf(ret.credentials)) =
           [token |-> "Basic dTI6cDE=", expires |-> 3840000, type |-> "basic"]

----------------------------------------------------------------------------
(* C7 *)

\* why a probe failed: the rejection of the fetch, or the status
ProbeReason(response) ==
    IF response.kind = "reject" THEN response.statusText
    ELSE "HTTP " \o ToString(response.status)

\* C7: when the token request of a call has failed and its probe fails
\* too, the call fails with a message that contains the reason the token
\* request failed and the reason the probe failed.
C7_BothReasonsReported ==
    [][\A call \in Running : \A response \in AllProbeResponses :
          (/\ call.pc = "basic"
           /\ ~ProbeAccepted(response)
           /\ ProbeStep(call, response)) =>
             /\ ret'.op = "resolve"
             /\ ret'.outcome = "error"
             /\ Contains(ret'.value, call.oauthError)
             /\ Contains(ret'.value, ProbeReason(response))]_vars

----------------------------------------------------------------------------
(* C8 *)

\* the keys either store of a step holds
KeysOfStep == DOMAIN Store \cup DOMAIN Store'

\* C8 as the specification states it: a call that ends in failure (the
\* validation failed, or the token request and the probe both failed) has
\* left the store under its key as it was: neither the step in which it
\* fails nor its lookup has changed what the store holds there.
C8_FailedCallLeavesKeyUnmodified ==
    [][\A credentials \in Records :
          (/\ ret'.op = "resolve"
           /\ ret'.outcome = "error"
           /\ ret'.credentials = credentials) =>
             /\ At(Store', KeyOf(credentials)) = At(Store, KeyOf(credentials))
             /\ ret'.removed = Absent]_vars

\* C8, amended: a call that ends in failure writes nothing. What the store
\* holds under a key changes only when a call for that key returns a header
\* after a request, or when an entry that has expired (expires <= now) is
\* removed; the lookup of a call of ViridemOAuth2API does remove such an
\* entry, also when the call then fails, and ViridemOauth2 removes nothing.
\* A call whose validation fails leaves no unexpired entry under its key.
C8_FailedCallOnlyDropsExpiredEntry ==
    [][/\ \A key \in KeysOfStep :
             At(Store', key) # At(Store, key) =>
                \/ /\ ret'.op = "resolve"
                   /\ ret'.outcome = "header"
                   /\ ret'.phase \in {"oauth", "basic"}
                   /\ KeyOf(ret'.credentials) = key
                \/ /\ resolver = OAuth2API
                   /\ At(Store, key) # Absent
                   /\ At(Store, key).expires <= now
                   /\ At(Store', key) = Absent
       /\ (ret'.op = "resolve" /\ ret'.outcome = "error") =>
             LET key == KeyOf(ret'.credentials)
             IN  /\ \/ At(Store', key) = At(Store, key)
                    \/ /\ ret'.phase = "validate"
                       /\ ret'.removed = At(Store, key)
                       /\ At(Store', key) = Absent
                 /\ ret'.removed # Absent =>
                       (resolver = OAuth2API /\ ret'.removed.expires <= now)
                 /\ ret'.phase = "validate" =>
                       ~(At(Store', key) # Absent /\ At(Store', key).expires > now)]_vars

\* a call has just failed after its lookup removed an expired entry
C8_Witness ==
    /\ ret.op = "resolve"
    /\ ret.outcome = "error"
    /\ ret.removed # Absent
    /\ ret.removed.expires <= now
    /\ At(Store, KeyOf(ret.credentials)) = Absent

----------------------------------------------------------------------------
(* C9 *)

\* C9: a call that waits for its token request has issued no probe; a call
\* that waits for its probe has issued it after its one token request
\* ended in failure; a call that returned the header of a granted token
\* issued no probe: the two requests of a call are never both in flight.
C9_ProbeOnlyAfterTokenFailure ==
    /\ \A call \in Running :
          /\ call.pc \in {"oauth", "basic"}
          /\ call.pc = "oauth" =>
                (call.oauthReqs = 1 /\ call.basicReqs = 0 /\ call.oauthError = "")
          /\ call.pc = "basic" =>
                (call.oauthReqs = 1 /\ call.basicReqs = 1 /\ call.oauthError # "")
    /\ ret.op = "resolve" =>
          /\ ret.phase \in {"cache", "validate"} =>
                (ret.oauthReqs = 0 /\ ret.basicReqs = 0)
          /\ ret.phase = "oauth" =>
                (ret.outcome = "header" /\ ret.oauthReqs = 1 /\ ret.basicReqs = 0)
          /\ ret.phase = "basic" => (ret.oauthReqs = 1 /\ ret.basicReqs = 1)

\* a call waits for the probe it issued after its token request failed
C9_Witness ==
    \E call \in Running :
       /\ call.pc = "basic"
       /\ call.oauthError = "HTTP 500: Internal Server Error. oops"
       /\ call.basicReqs = 1

----------------------------------------------------------------------------
(* C10 *)

\* C10: createOAuthEntry(type, token, expiresInSeconds) makes an entry of
\* kind OAuth that holds the token and expires at
\* now + max(expiresInSeconds * 1000, minCacheDuration) - bufferTime under
\* the configuration of the type; under the default configuration that is
\* now + 3540000 for 3600 seconds and never before now + 240000.
C10_OAuthEntryExpiry ==
    ret.op = "createOAuthEntry" =>
       LET registered == ret.credentialType \in DOMAIN cacheConfigs
           minCacheDuration == IF registered
                               THEN cacheConfigs[ret.credentialType].minCacheDuration
                               ELSE 300000
           bufferTime == IF registered
                         THEN cacheConfigs[ret.credentialType].bufferTime
                         ELSE 60000
           millis == ret.expiresInSeconds * 1000
           lifetime == IF millis >= minCacheDuration THEN millis
                       ELSE minCacheDuration
       IN  /\ ret.value.type = "oauth"
           /\ ret.value.token = ret.token
           /\ ret.value.expires = now + lifetime - bufferTime
           /\ (minCacheDuration = 300000 /\ bufferTime = 60000) =>
                 /\ ret.value.expires >= now + 240000
                 /\ ret.expiresInSeconds = 3600 => ret.value.expires = now + 3540000

\* a one-second token has just been given the floor of the default
\* configuration at the second clock reading
C10_Witness ==
    /\ ret.op = "createOAuthEntry"
    /\ ret.expiresInSeconds = 1
    /\ ret.credentialType \notin DOMAIN cacheConfigs
    /\ now = 240000
    /\ ret.value.expires = 480000

----------------------------------------------------------------------------
(* C11 *)

\* the instant the server stops accepting a token it has issued by the
\* time the response is handled: at the latest now + expires_in seconds
ServerExpiry(response) == now + response.data.expires_in * 1000

\* C11: an OAuth entry that a call writes for a granted token with a
\* reported expires_in expires in the cache strictly before the server
\* stops accepting the token (issue time + expires_in seconds).
C11_CachedExpiryBeforeServerExpiry ==
    [][\A call \in Running : \A response \in AllTokenResponses :
          (/\ call.pc = "oauth"
           /\ TokenGranted(response)
           /\ "expires_in" \in DOMAIN response.data
           /\ TokenStep(call, response)) =>
             /\ At(Store', KeyOf(call.credentials)) # Absent
             /\ At(Store', KeyOf(call.credentials)).expires
                   < ServerExpiry(response)]_vars

----------------------------------------------------------------------------
(* C12 *)

\* C12: the key that generateKey derives for a credential type and a
\* record is the same after every step of the process (getInstance, reads
\* and writes of the cache, sweeps, reset) as it was before the step, so a
\* later generateKey returns what any earlier one returned.
C12_KeyDerivationRepeatable ==
    [][\A credentialType \in CredentialTypes : \A credentials \in KeyRecords :
          generateKey(credentialType, credentials)'
              = generateKey(credentialType, credentials)]_vars

----------------------------------------------------------------------------
(* C13 *)

\* two records that both name a user and differ in nothing but that name
DifferOnlyInUsername(a, b) ==
    /\ "username" \in DOMAIN a
    /\ DOMAIN a = DOMAIN b
    /\ a.username # b.username
    /\ \A f \in DOMAIN a \ {"username"} : a[f] = b[f]

\* C13: the key derived for a record differs from the key derived, under
\* the same credential type, for every record that differs from it only
\* in username, whether the type has a registered generator or not.
C13_UsernameSeparatesKeys ==
    ret.op = "generateKey" =>
       \A other \in KeyRecords :
          DifferOnlyInUsername(ret.credentials, other) =>
             generateKey(ret.credentialType, other) # ret.value

----------------------------------------------------------------------------
(* C14 *)

\* the lifetime in milliseconds a granted response gives its token
GrantedMillis(response) ==
    IF "expires_in" \in DOMAIN response.data
    THEN response.data.expires_in * 1000 ELSE 3600000

\* the entry a call makes of a granted token, from that call and its
\* response alone
OAuthEntryOf(call, response) ==
    IF resolver = OAuth2API
    THEN [token   |-> response.data.access_token,
          expires |-> now + (IF GrantedMillis(response) > 300000
                             THEN GrantedMillis(response) ELSE 300000) - 60000,
          type    |-> "oauth"]
    ELSE [token   |-> response.data.access_token,
          expires |-> call.now + GrantedMillis(response) - 60000]

\* the entry a call makes of its Basic header once the probe is accepted
BasicEntryOf(call) ==
    IF resolver = OAuth2API
    THEN [token |-> "Basic dTE6cDE=", expires |-> now + 3600000, type |-> "basic"]
    ELSE [token |-> "Basic dTE6cDE=", expires |-> call.now + 3600000]

----------------------------------------------------------------------------
(* C15 *)

\* C15: after a sweep at time now, by cleanupNow or by the timer, the
\* store holds no entry with expires <= now, read since its expiry or not,
\* and holds every other entry as before; an entry stored with expiry
\* now - 1 is gone from keys().
C15_SweepRemovesAllExpired ==
    [][(ret'.op = "cleanupNow" \/ TimerSweep) =>
          /\ \A key \in keys' : cache'[key].expires > now
          /\ keys' = {key \in keys : cache[key].expires > now}
          /\ \A key \in keys' : cache'[key] = cache[key]]_vars

\* cleanupNow has just removed an entry that expired a millisecond ago and
\* kept one that expires a millisecond from now
C15_Witness ==
    /\ ret.op = "cleanupNow"
    /\ \E key \in DOMAIN ret.before :
          /\ ret.before[key].expires = now - 1
          /\ key \notin keys
    /\ \E key \in keys : cache[key].expires = now + 1

----------------------------------------------------------------------------
(* C16 *)

\* C16: reset() leaves the store of the live instance empty, its cleanup
\* timer stopped and no instance live; while no instance is live no timer
\* runs, so no sweep fires until getInstance makes a new instance; and
\* between resets there is one instance: the first use after a reset makes
\* it and starts its timer, and every later use finds that instance, its
\* timer, its registrations and its store as the step before left them.
C16_ResetStopsTimerAndEmptiesStore ==
    [][/\ ret'.op = "reset" =>
             (cache' = Absent /\ ~cleanupInterval' /\ ~instance')
       /\ ~instance' => (~cleanupInterval' /\ cache' = Absent)
       /\ TimerSweep => (instance /\ instance')
       /\ (~instance /\ ret'.op \notin {"reset", "none"}) =>
             (instance' /\ cleanupInterval')
       /\ (~instance /\ ret'.op \in {"reset", "none"}) => ~instance'
       /\ (instance /\ ret'.op # "reset") =>
             /\ instance'
             /\ cleanupInterval' = cleanupInterval
             /\ keyGenerators' = keyGenerators
             /\ cacheConfigs' = cacheConfigs
             /\ ret'.op \in {"generateKey", "getStats"} => cache' = cache]_vars

\* reset() has just emptied a store that held entries and stopped the timer
C16_Witness ==
    /\ ret.op = "reset"
    /\ ret.before # Absent
    /\ cache = Absent
    /\ ~cleanupInterval
    /\ ~instance

----------------------------------------------------------------------------
(* C17 *)

\* the fields of a configuration
ConfigFields == {"bufferTime", "defaultTokenExpiry", "minCacheDuration", "cleanupInterval"}

\* C17: after registerCacheConfig(type, partial), getCacheConfig(type) is
\* the default configuration (60000, 3600000, 300000, 300000) with exactly
\* the fields of partial overridden, whatever was registered before, and
\* the other types keep theirs; the same registration once more changes
\* nothing; and a type never registered gets the default configuration.
C17_RegisteredConfigOverridesDefault ==
    [][/\ \A credentialType \in CredentialTypes : \A config \in PartialConfigs :
             RegisterCacheConfig(credentialType, config) =>
                /\ getCacheConfig(credentialType)' =
                      [f \in ConfigFields |->
                          IF f \in DOMAIN config THEN config[f]
                          ELSE [bufferTime |-> 60000,
                                defaultTokenExpiry |-> 3600000,
                                minCacheDuration |-> 300000,
                                cleanupInterval |-> 300000][f]]
                /\ \A other \in CredentialTypes \ {credentialType} :
                      getCacheConfig(other)' = getCacheConfig(other)
                /\ registerCacheConfig(credentialType, config)' = cacheConfigs'
       /\ \A credentialType \in CredentialTypes :
             credentialType \notin DOMAIN cacheConfigs' =>
                getCacheConfig(credentialType)' =
                   [bufferTime |-> 60000, defaultTokenExpiry |-> 3600000,
                    minCacheDuration |-> 300000, cleanupInterval |-> 300000]]_vars

\* a type registered with a longer buffer and then with a longer minimum
\* duration has the default buffer again
C17_Witness ==
    /\ "OtherAPI" \in DOMAIN cacheConfigs
    /\ cacheConfigs["OtherAPI"].minCacheDuration = 600000
    /\ cacheConfigs["OtherAPI"].bufferTime = 60000
    /\ cacheConfigs[CredentialType].bufferTime = 120000
    /\ cacheConfigs[CredentialType].minCacheDuration = 300000

----------------------------------------------------------------------------
(* C18 *)

\* the count a breakdown gives for a kind, 0 when the kind has no entry
CountOf(types, kind) == IF kind \in DOMAIN types THEN types[kind] ELSE 0

\* C18: what getStats() returns: total is the number of stored entries,
\* expired the number of entries with expires <= now, active the rest, so
\* total = active + expired; the breakdown has no kind but oauth and basic and
\* its two counts sum to total; and the store is the one getStats was called
\* on.
C18_StatsCountTheStore ==
    ret.op = "getStats" =>
        /\ cache = ret.before
        /\ ret.value.total = Cardinality(DOMAIN cache)
        /\ ret.value.expired =
              Cardinality({key \in DOMAIN cache : cache[key].expires <= now})
        /\ ret.value.total = ret.value.active + ret.value.expired
        /\ DOMAIN ret.value.types \subseteq {"oauth", "basic"}
        /\ CountOf(ret.value.types, "oauth") + CountOf(ret.value.types, "basic")
              = ret.value.total

\* statistics of a store holding an oauth entry that expires at this instant
\* and a basic entry that is still fresh
C18_Witness ==
    /\ ret.op = "getStats"
    /\ ret.value.expired = 1
    /\ ret.value.active = 1
    /\ \E key \in DOMAIN cache :
          cache[key].expires = now /\ cache[key].type = "oauth"
    /\ CountOf(ret.value.types, "basic") = 1

----------------------------------------------------------------------------
(* C19 *)

\* C19: formatting a string that starts with "Basic " or "Bearer " gives
\* the string itself and formatting any other string gives "Bearer "
\* followed by it, in ViridemOAuth2API and in ViridemOauth2 alike, and
\* formatting the result once more changes nothing. The call that writes an
\* entry returns the formatted stored value, which is the stored value
\* itself after the probe and "Bearer " before it for a bare token; and a
\* call served from the store returns the formatted value of the entry it
\* found, hence the header of the call that wrote the entry.
C19_HeaderFormatting ==
    [][/\ ret'.op = "formatAuthHeader" =>
             /\ (StartsWith(ret'.token, "Basic ") \/ StartsWith(ret'.token, "Bearer "))
                   => ret'.value = ret'.token
             /\ ~(StartsWith(ret'.token, "Basic ") \/ StartsWith(ret'.token, "Bearer "))
                   => ret'.value = "Bearer " \o ret'.token
             /\ ret'.legacy = ret'.value
             /\ formatAuthHeader(ret'.value) = ret'.value
             /\ authHeader(ret'.legacy) = ret'.legacy
       /\ \A credentials \in HeaderRecords :
             LET key == KeyOf(credentials)
                 written == At(Store', key)
             IN  (written # Absent /\ written # At(Store, key)) =>
                    /\ ret'.op = "resolve"
                    /\ ret'.outcome = "header"
                    /\ ret'.phase # "cache"
                    /\ ret'.value = HeaderOf(written.token)
                    /\ ret'.phase = "basic" => ret'.value = written.token
                    /\ written.token = "tokA" =>
                          (ret'.phase = "oauth" /\ ret'.value = "Bearer tokA")
       /\ (ret'.op = "resolve" /\ ret'.phase = "cache") =>
             LET entry == At(Store, KeyOf(ret'.credentials))
             IN  /\ entry # Absent
                 /\ Store' = Store
                 /\ ret'.outcome = "header"
                 /\ ret'.value = HeaderOf(entry.token)]_vars

\* a call has just been served the full Basic header that the call which
\* fell back to Basic Auth stored
C19_Witness ==
    /\ ret.op = "resolve"
    /\ ret.phase = "cache"
    /\ ret.outcome = "header"
    /\ At(Store, KeyOf(ret.credentials)) # Absent
    /\ ret.value = At(Store, KeyOf(ret.credentials)).token
    /\ ret.value = "Basic dTE6cDE="

----------------------------------------------------------------------------
(* C21 *)

\* the keys under which a step puts an entry that was not there before it
WrittenKeys == {key \in DOMAIN Store' : At(Store, key) # Store'[key]}

\* C21: a call that is suspended or has just ended has issued at most one
\* token request and at most one probe, and none before the lookup and the
\* validation are over; the store is written only in the step in which a
\* call ends with a header after a request, under one key, so that a call
\* writes at most once; and a step that leaves the call suspended, or ends
\* it with an error or from the store, writes nothing.
C21_NoRetryWithinCall ==
    [][/\ \A call \in BagToSet(calls') :
             /\ call.oauthReqs = 1
             /\ call.basicReqs = (IF call.pc = "basic" THEN 1 ELSE 0)
       /\ ret'.op = "resolve" =>
             /\ ret'.oauthReqs <= 1
             /\ ret'.basicReqs <= ret'.oauthReqs
             /\ ret'.phase \in {"cache", "validate"} =>
                   (ret'.oauthReqs = 0 /\ ret'.basicReqs = 0)
       /\ WrittenKeys # {} =>
             /\ Cardinality(WrittenKeys) = 1
             /\ ret'.op = "resolve"
             /\ ret'.outcome = "header"
             /\ ret'.phase \in {"oauth", "basic"}
             /\ WrittenKeys = {KeyOf(ret'.credentials)}
             /\ BagCardinality(calls') = BagCardinality(calls) - 1]_vars

\* a call has ended with the combined error after one refused token request
\* and one refused probe, and the store holds nothing under its key
C21_Witness ==
    /\ ret.op = "resolve"
    /\ ret.phase = "basic"
    /\ ret.outcome = "error"
    /\ ret.oauthReqs = 1
    /\ ret.basicReqs = 1
    /\ At(Store, KeyOf(ret.credentials)) = Absent

----------------------------------------------------------------------------
(* C22 *)

\* a call has ended in one of the three outcomes: a header; the validation
\* error, before any request; or the combined error, after the token request
\* and the probe have both failed
EndedAsSpecified ==
    \/ /\ ret.outcome = "header"
       /\ StartsWith(ret.value, "Bearer ") \/ StartsWith(ret.value, "Basic ")
    \/ /\ ret.outcome = "error"
       /\ ret.phase = "validate"
       /\ Contains(ret.value, "Missing required credentials")
       /\ ret.oauthReqs = 0 /\ ret.basicReqs = 0
    \/ /\ ret.outcome = "error"
       /\ ret.phase = "basic"
       /\ Contains(ret.value, "OAuth2")
       /\ Contains(ret.value, "Basic Auth")
       /\ ret.oauthReqs = 1 /\ ret.basicReqs = 1

\* C22: when every request issued comes back, a call that waits for a
\* response ends, and every call that ends has ended with a header, with the
\* validation error or with the combined error: a refused connection, an HTTP
\* error or a body that is not JSON, at the token request or at the probe,
\* ends no call by itself.
C22_CallEndsInOneOfThree ==
    /\ [](ret.op = "resolve" => EndedAsSpecified)
    /\ \A credentials \in LiveRecords :
          (\E call \in Running : call.credentials = credentials)
             ~> (/\ ret.op = "resolve"
                 /\ ret.credentials = credentials
                 /\ ret.phase \in {"oauth", "basic"}
                 /\ EndedAsSpecified)

\* a call whose token request came back with a body that is not JSON and
\* whose probe was refused at the connection has ended with the combined
\* error that names both
C22_Witness ==
    /\ ret.op = "resolve"
    /\ ret.outcome = "error"
    /\ ret.phase = "basic"
    /\ Contains(ret.value, "Unexpected token < in JSON")
    /\ calls = EmptyBag
    /\ EndedAsSpecified

----------------------------------------------------------------------------
(* C23 *)

\* a step of get, has, getStats, keys, cleanupNow or the periodic sweep
ReadOrSweep ==
    \/ ret'.op \in {"get", "has", "getStats", "keys", "cleanupNow"}
    \/ TimerSweep

\* a step of getStats, keys, cleanupNow or the periodic sweep, the
\* operations that take no key
KeylessReadOrSweep ==
    \/ ret'.op \in {"getStats", "keys", "cleanupNow"}
    \/ TimerSweep

\* C23 as the claim states it: while a key holds an unexpired entry, a read
\* or a sweep leaves that entry as it is and leaves the entry of every other
\* key unchanged, where for get and has the other keys are those the
\* operation was not called with.
C23_ReadsAndSweepsLeaveOtherKeys ==
    [][\A key \in Keys :
          LET entry == At(cache, key)
          IN  (entry # Absent /\ entry.expires > now /\ ReadOrSweep) =>
                 /\ At(cache', key) = entry
                 /\ KeylessReadOrSweep =>
                       \A other \in Keys \ {key} :
                          At(cache', other) = At(cache, other)
                 /\ ret'.op \in {"get", "has"} =>
                       \A other \in Keys \ {ret'.key} :
                          At(cache', other) = At(cache, other)]_vars

\* C23: set(key, e) leaves e under the key; an unexpired entry is left as it
\* is by get, has, getStats, keys, cleanupNow and the periodic sweep, and get
\* of its key returns exactly it; what a key holds changes only in a set or
\* delete of that key, a clear or a reset, or, when the entry has expired, in
\* a get or has of that key or in a sweep. get and has leave the entries of
\* the keys they were not called with unchanged, expired or not; getStats and
\* keys change nothing; a sweep leaves the unexpired entries of all keys
\* unchanged and removes the expired ones.
C23_UnexpiredEntryUntouchedByReads ==
    [][\A key \in Keys :
          LET entry == At(cache, key)
          IN  /\ (ret'.op = "set" /\ ret'.key = key) => At(cache', key) = ret'.value
              /\ (entry # Absent /\ entry.expires > now /\ ReadOrSweep) =>
                    /\ At(cache', key) = entry
                    /\ (ret'.op = "get" /\ ret'.key = key) => ret'.value = entry
              /\ (ret'.op \in {"get", "has"} /\ ret'.key # key) =>
                    At(cache', key) = entry
              /\ ret'.op \in {"getStats", "keys"} => cache' = cache
              /\ (ret'.op = "cleanupNow" \/ TimerSweep) =>
                    At(cache', key) =
                       (IF entry # Absent /\ entry.expires > now THEN entry ELSE Absent)
              /\ At(cache', key) # entry =>
                    \/ ret'.op \in {"set", "delete"} /\ ret'.key = key
                    \/ ret'.op \in {"clear", "reset"}
                    \/ /\ entry # Absent
                       /\ entry.expires <= now
                       /\ \/ ret'.op \in {"get", "has"} /\ ret'.key = key
                          \/ ret'.op = "cleanupNow"
                          \/ TimerSweep]_vars

\* get has just returned the entry that expires one millisecond from now,
\* while the other key still holds an entry that has expired
C23_Witness ==
    /\ ret.op = "get"
    /\ ret.value # Absent
    /\ ret.value.expires = now + 1
    /\ At(cache, ret.key) = ret.value
    /\ \E other \in DOMAIN cache \ {ret.key} : cache[other].expires <= now

----------------------------------------------------------------------------
(* C24 *)

\* the headers that authenticating the user of a record can give: the
\* bearer header of the token granted to that user and the Basic header of
\* the user's name and password
HeadersOf(credentials) ==
    {IF credentials.username = "u1" THEN "Bearer tokA" ELSE "Bearer tokB",
     IF credentials.username = "u1" THEN "Basic dTE6cDE=" ELSE "Basic dTI6cDE="}

----------------------------------------------------------------------------
(* C25 *)

\* C25: the periodic sweep runs at the period registered as cleanupInterval
\* for the credential type: every run of the interval callback is at a
\* multiple of that value after the start of the timer.
C25_SweepAtRegisteredPeriod ==
    [][TimedSweep => now % getCacheConfig(CredentialType).cleanupInterval = 0]_vars

----------------------------------------------------------------------------
(* C26 *)

\* two records with the same fields that agree on everything but, possibly,
\* the password and the client secret
DifferOnlyInSecrets(a, b) ==
    /\ DOMAIN a = DOMAIN b
    /\ \A f \in DOMAIN a \ {"password", "client_secret"} : a[f] = b[f]

\* the passwords and client secrets of the records
SecretValues == {"p1", "p2", "s", "s2"}

\* the entry a call makes of its Basic header once the probe is accepted:
\* the header is base64 of the user's name and the password of the call
SecretBasicEntryOf(call) ==
    LET header == IF call.credentials.password = "p1"
                  THEN "Basic dTE6cDE=" ELSE "Basic dTE6cDI="
    IN  IF resolver = OAuth2API
        THEN [token |-> header, expires |-> now + 3600000, type |-> "basic"]
        ELSE [token |-> header, expires |-> call.now + 3600000]

\* C26: records that differ only in password or client secret get the same
\* key from generateKey, with and without a registered generator, and from
\* the resolver in use; no stored key contains a password or a client
\* secret; the entry made of a granted token is made of the response and
\* the clock alone and holds no password or client secret; the entry made
\* after an accepted probe holds the Basic header of username:password and
\* otherwise depends on the clock alone; and an entry has no field besides
\* token, expires and type.
C26_KeysAndEntriesWithoutSecrets ==
    [][/\ \A credentialType \in CredentialTypes : \A other \in SecretRecords :
             (/\ ret'.op = "generateKey"
              /\ ret'.credentialType = credentialType
              /\ DifferOnlyInSecrets(ret'.credentials, other)) =>
                generateKey(credentialType, other)' = ret'.value
       /\ \A a \in SecretRecords : \A b \in SecretRecords :
             DifferOnlyInSecrets(a, b) => KeyOf(a) = KeyOf(b)
       /\ \A call \in Running : \A response \in SecretTokenResponses :
             (call.pc = "oauth" /\ TokenGranted(response) /\ TokenStep(call, response)) =>
                /\ At(Store', KeyOf(call.credentials)) = OAuthEntryOf(call, response)
                /\ \A secret \in SecretValues :
                      ~Contains(At(Store', KeyOf(call.credentials)).token, secret)
       /\ \A call \in Running : \A response \in ProbeResponses :
             (call.pc = "basic" /\ ProbeAccepted(response) /\ ProbeStep(call, response)) =>
                At(Store', KeyOf(call.credentials)) = SecretBasicEntryOf(call)
       /\ \A key \in DOMAIN Store' :
             /\ \A secret \in SecretValues : ~Contains(key, secret)
             /\ DOMAIN Store'[key] \subseteq {"token", "expires", "type"}]_vars

\* the call for the record with the other password has been served, under
\* the shared key, the entry that the record with the first password left
C26_Witness ==
    /\ ret.op = "resolve"
    /\ ret.phase = "cache"
    /\ ret.credentials.password = "p2"
    /\ ret.value = "Basic dTE6cDE="
    /\ At(Store, KeyOf(ret.credentials)) # Absent

----------------------------------------------------------------------------
(* C27 *)

\* C27: whatever uses of the instance and resets have happened, at most one
\* interval timer is active in the process: exactly one, held by the live
\* instance, while there is an instance, and none while there is not.
C27_AtMostOneTimer ==
    /\ timers <= 1
    /\ timers = (IF cleanupInterval THEN 1 ELSE 0)
    /\ instance => timers = 1
    /\ ~instance => timers = 0

\* an instance made after a reset, which has dropped the registrations of
\* the module load, is in use and one timer is active
C27_Witness ==
    /\ instance
    /\ timers = 1
    /\ keyGenerators = {}
    /\ ret.op = "set"
    /\ cache # Absent

----------------------------------------------------------------------------
(* C28 *)

\* C28: an entry that createOAuthEntry has just made expires after the
\* instant it was made at, whatever the lifetime in seconds and whatever
\* configuration is registered for the type.
C28_OAuthEntryFreshWhenCreated ==
    ret.op = "createOAuthEntry" => ret.value.expires > now

====
